---- MODULE Spec2Model ----
(***************************************************************************)
(* A model of the notebook "2018-01-29-Interface Reactions.ipynb": a       *)
(* single top-to-bottom run of its six code cells.  The notebook is glue   *)
(* code over pymatgen and the Materials Project REST API; the calls into   *)
(* the library are modelled by what the notebook passes to them and reads  *)
(* from them.  Numbers are fixed-point integers: energies and chemical     *)
(* potentials in tenths of an eV, the mixing ratio and reaction energy of  *)
(* a kink in units of 10^-5 (one more decimal than round(..., 4) keeps).   *)
(***************************************************************************)
EXTENDS Integers, Sequences, FiniteSets, TLC

VARIABLES
    pc,             \* the statement the run is at
    error,          \* the call that raised, "" while none has
    assigned,       \* the names bound in the kernel's namespace
    mpr,            \* cell 1
    reactant1, reactant2, grand, open_el, relative_mu,      \* cell 2
    comp1, comp2, elements, entries, pd, mu, chempots, gpd, interface, \* cell 3
    plt,            \* cell 4
    kinks,          \* the value interface.get_kinks() returned (cell 5)
    heap,           \* the Reaction objects that value refers to
    critical_rxns,  \* cell 5
    rxn,            \* cell 6
    calls,          \* the external calls started so far, in order
    requests,       \* the element lists sent to the remote database
    outputs,        \* what the cells displayed
    files           \* the files the run has written

params == <<reactant1, reactant2, grand, open_el, relative_mu>>
cell3 == <<comp1, comp2, elements, entries, pd, mu, chempots, gpd, interface>>
cell5 == <<kinks, heap, critical_rxns>>
vars == <<pc, error, assigned, mpr, params, cell3, plt, cell5, rxn, calls,
          requests, outputs, files>>

-----------------------------------------------------------------------------
(* Bounds and program constants *)

\* The longest kink sequence get_kinks returns in the model.
MaxKinks == 3

\* round(ratio, 4), round(energy, 4)
NDigits == 4

\* critical_rxns[2]
ThirdRow == 2

-----------------------------------------------------------------------------
(* Values *)

None == [kind |-> "None"]

\* A chemical formula as Composition's parser reads it: symbol, amount.
FormulaTokens(f) ==
    CASE f = "LiCoO2" -> << <<"Li", 1>>, <<"Co", 1>>, <<"O", 2>> >>
      [] f = "Li3PS4" -> << <<"Li", 3>>, <<"P", 1>>, <<"S", 4>> >>
      [] f = "Li2S"   -> << <<"Li", 2>>, <<"S", 1>> >>
      [] f = "Li2O"   -> << <<"Li", 2>>, <<"O", 1>> >>
      [] f = "CoS2"   -> << <<"Co", 1>>, <<"S", 2>> >>
      [] f = "Li"     -> << <<"Li", 1>> >>
      [] f = "Co"     -> << <<"Co", 1>> >>
      [] f = "O2"     -> << <<"O", 2>> >>
      [] f = "P"      -> << <<"P", 1>> >>
      [] f = "S"      -> << <<"S", 1>> >>
      [] OTHER        -> << >>

\* The values cell 2 may be edited to (the notebook's own are the first).
Reactants1 == {"LiCoO2", "Li2S"}
Reactants2 == {"Li3PS4", "Li2S"}
OpenElements == {"Co", "S"}
\* "Relative chemical potential vs. pure substance. Must be non-positive."
RelativeMus == {-10, 0}

Range(s) == {s[i] : i \in DOMAIN s}

\* Composition(formula): the element amounts, one pair per element.
Composition(f) ==
    LET toks == FormulaTokens(f)
        first(i) == \A j \in 1..(i - 1) : toks[j][1] # toks[i][1]
        keep == {i \in DOMAIN toks : first(i)}
        RECURSIVE build(_)
        build(i) ==
            IF i > Len(toks) THEN << >>
            ELSE IF i \in keep
                 THEN << <<toks[i][1], toks[i][2]>> >> \o build(i + 1)
                 ELSE build(i + 1)
    IN  build(1)

\* comp.elements, and e.symbol of each
Symbols(comp) == [i \in DOMAIN comp |-> comp[i][1]]

\* The orders list(set(xs)) may come out in: a set's iteration order is
\* arbitrary.
RECURSIVE Orderings(_)
Orderings(S) ==
    IF S = {} THEN { << >> }
    ELSE UNION { { <<x>> \o t : t \in Orderings(S \ {x}) } : x \in S }

\* GatherElements without the set(): the concatenated list as it is.
GatherElements_NoDedup(c1, c2, g, oe) ==
    LET listed == Symbols(c1) \o Symbols(c2)
    IN  { IF g THEN Append(listed, oe) ELSE listed }

\* lines 87-90: the symbols of both compositions, the open element appended
\* in grand mode, duplicates removed through a set.
GatherElements(c1, c2, g, oe) ==
    LET listed == Symbols(c1) \o Symbols(c2)
        all == IF g THEN Append(listed, oe) ELSE listed
    IN  Orderings(Range(all))


-----------------------------------------------------------------------------
(* The remote database and the library, as far as the notebook uses them *)

Entry(f, e) == [formula |-> f, energy |-> e]

\* Contents the remote database may have when it is queried: a full one, one
\* with another energy for cobalt metal and no sulfur compounds, an empty one.
Databases ==
    { { Entry("Li", -19), Entry("Co", -71), Entry("O2", -49), Entry("P", -54),
        Entry("S", -41), Entry("LiCoO2", -58), Entry("Li3PS4", -43),
        Entry("Li2S", -40), Entry("Li2O", -48), Entry("CoS2", -55) },
      { Entry("Li", -19), Entry("Co", -70), Entry("O2", -49), Entry("P", -54),
        Entry("S", -41), Entry("LiCoO2", -58), Entry("Li3PS4", -43) },
      { } }

ElementSet(f) == {FormulaTokens(f)[i][1] : i \in DOMAIN FormulaTokens(f)}

\* mpr.get_entries_in_chemsys(elements): every entry whose elements all lie in
\* the chemical system.
EntriesInChemsys(db, els) ==
    {e \in db : ElementSet(e.formula) \subseteq Range(els)}

\* PhaseDiagram(entries) needs a terminal entry for each element.
HasTerminals(ents) ==
    /\ ents # {}
    /\ \A e \in ents : \A x \in ElementSet(e.formula) :
           \E t \in ents : ElementSet(t.formula) = {x}

PhaseDiagram(ents) == [kind |-> "PhaseDiagram", entries |-> ents]

Min(S) == CHOOSE x \in S : \A y \in S : x <= y

\* pd.get_transition_chempots(Element(el)): the critical chemical potentials
\* of el, highest first; the first is that of the pure substance.
TransitionChempots(diagram, el) ==
    LET pure == {e.energy : e \in {t \in diagram.entries :
                                      ElementSet(t.formula) = {el}}}
        mixed == {e.energy : e \in {t \in diagram.entries :
                                      /\ el \in ElementSet(t.formula)
                                      /\ ElementSet(t.formula) # {el}}}
    IN  IF pure = {} THEN << >>
        ELSE IF mixed = {} THEN << Min(pure) >>
        ELSE << Min(pure), Min(pure) + Min(mixed) >>

\* line 101: the [0] of that list
FirstChempot(diagram, el) == TransitionChempots(diagram, el)[1]

\* Chempots with the sign of relative_mu turned.
Chempots_Minus(oe, rmu, m) == { <<oe, m - rmu>> }

\* line 103: chempots = {open_el: relative_mu + mu}
Chempots(oe, rmu, m) == { <<oe, rmu + m>> }

GrandPotentialPhaseDiagram(ents, cp) ==
    [kind |-> "GrandPotentialPhaseDiagram", entries |-> ents, chempots |-> cp]

InterfacialReactivity(c1, c2, diagram, nrm, nomix, nongrand) ==
    [kind |-> "InterfacialReactivity", c1 |-> c1, c2 |-> c2, pd |-> diagram,
     norm |-> nrm, include_no_mixing_energy |-> nomix,
     pd_non_grand |-> nongrand]

\* MakeInterface handing the ordinary phase diagram to both branches.
MakeInterface_SamePd(g, c1, c2, diagram, gdiagram) ==
    IF g
    THEN InterfacialReactivity(c1, c2, diagram, TRUE, TRUE, diagram)
    ELSE InterfacialReactivity(c1, c2, diagram, TRUE, FALSE, None)

\* lines 107-111: the constructor call of each branch
MakeInterface(g, c1, c2, diagram, gdiagram) ==
    IF g
    THEN InterfacialReactivity(c1, c2, gdiagram, TRUE, TRUE, diagram)
    ELSE InterfacialReactivity(c1, c2, diagram, TRUE, FALSE, None)

\* What get_kinks may report for one kink: mixing ratio, reaction energy (both
\* in units of 10^-5) and the reaction.
KinkData ==
    { <<0, 0, [lhs |-> <<"Li3PS4">>, rhs |-> <<"Li3PS4">>]>>,
      <<84216, -56757,
        [lhs |-> <<"Li3PS4", "LiCoO2">>, rhs |-> <<"Co", "Li2S", "CoS2">>]>>,
      <<100000, -4, [lhs |-> <<"LiCoO2">>, rhs |-> <<"LiCoO2">>]>> }

RECURSIVE SeqsUpTo(_, _)
SeqsUpTo(S, n) ==
    IF n = 0 THEN { << >> }
    ELSE LET shorter == SeqsUpTo(S, n - 1)
         IN  shorter \cup { Append(s, x) : s \in shorter, x \in S }

\* interface.get_kinks(): tuples (index, ratio, energy, reaction), the index
\* counting from 1, the reaction a reference to a Reaction object.
KinkTuples(data) == [i \in DOMAIN data |-> <<i, data[i][1], data[i][2], [ref |-> i]>>]
KinkHeap(data) == [i \in DOMAIN data |-> data[i][3]]

RECURSIVE Pow10(_)
Pow10(n) == IF n = 0 THEN 1 ELSE 10 * Pow10(n - 1)

\* Round cutting the extra digits off instead of rounding.
Round_Truncate(x, nd) == x \div Pow10(5 - nd)

\* Python's round(x, nd) on a value held in units of 10^-5: the nearest
\* multiple of 10^-nd, a tie going to the even one; the result in units of
\* 10^-nd.
Round(x, nd) ==
    LET unit == Pow10(5 - nd)
        q == x \div unit
        r == x % unit
    IN  IF 2 * r < unit THEN q
        ELSE IF 2 * r > unit THEN q + 1
        ELSE IF q % 2 = 0 THEN q ELSE q + 1

\* lines 248-252: the OrderedDict of one kink
Row(kink) ==
    << <<"mixing ratio", Round(kink[2], NDigits)>>,
       <<"reaction energy (eV/atom)", Round(kink[3], NDigits)>>,
       <<"reaction", kink[4]>> >>

\* lines 247-253: the list comprehension over interface.get_kinks()
CriticalRxns(ks) == [i \in DOMAIN ks |-> Row(ks[i])]

\* row[key] of an OrderedDict
Lookup(row, key) == row[CHOOSE i \in DOMAIN row : row[i][1] = key][2]

\* str(rxn)
RxnText(r) == [text |-> <<r.lhs, "->", r.rhs>>]


-----------------------------------------------------------------------------
(* Control flow: the cells top to bottom, the statements of a cell in order *)

\* NextPc with the phase diagram built before the entries are fetched.
NextPc_PdFirst(p, g) ==
    CASE p = "cell1_mpr"       -> "cell2_params"
      [] p = "cell2_params"    -> "cell3_comps"
      [] p = "cell3_comps"     -> "cell3_elements"
      [] p = "cell3_elements"  -> "cell3_pd"
      [] p = "cell3_pd"        -> "cell3_query"
      [] p = "cell3_query"     -> "cell3_await"
      [] p = "cell3_await"     -> IF g THEN "cell3_mu" ELSE "cell3_interface"
      [] p = "cell3_mu"        -> "cell3_chempots"
      [] p = "cell3_chempots"  -> "cell3_gpd"
      [] p = "cell3_gpd"       -> "cell3_interface"
      [] p = "cell3_interface" -> "cell4_plot"
      [] p = "cell4_plot"      -> "cell5_kinks"
      [] p = "cell5_kinks"     -> "cell5_table"
      [] p = "cell5_table"     -> "cell6_rxn"
      [] p = "cell6_rxn"       -> "done"
      [] OTHER                 -> p

\* NextPc taking the grand branch of line 99 whatever grand is.
NextPc_AlwaysGrand(p, g) ==
    CASE p = "cell1_mpr"       -> "cell2_params"
      [] p = "cell2_params"    -> "cell3_comps"
      [] p = "cell3_comps"     -> "cell3_elements"
      [] p = "cell3_elements"  -> "cell3_query"
      [] p = "cell3_query"     -> "cell3_await"
      [] p = "cell3_await"     -> "cell3_pd"
      [] p = "cell3_pd"        -> "cell3_mu"
      [] p = "cell3_mu"        -> "cell3_chempots"
      [] p = "cell3_chempots"  -> "cell3_gpd"
      [] p = "cell3_gpd"       -> "cell3_interface"
      [] p = "cell3_interface" -> "cell4_plot"
      [] p = "cell4_plot"      -> "cell5_kinks"
      [] p = "cell5_kinks"     -> "cell5_table"
      [] p = "cell5_table"     -> "cell6_rxn"
      [] p = "cell6_rxn"       -> "done"
      [] OTHER                 -> p

\* The statement after p; g is the value of grand (lines 99 and 109).
NextPc(p, g) ==
    CASE p = "cell1_mpr"       -> "cell2_params"
      [] p = "cell2_params"    -> "cell3_comps"
      [] p = "cell3_comps"     -> "cell3_elements"
      [] p = "cell3_elements"  -> "cell3_query"
      [] p = "cell3_query"     -> "cell3_await"
      [] p = "cell3_await"     -> "cell3_pd"
      [] p = "cell3_pd"        -> IF g THEN "cell3_mu" ELSE "cell3_interface"
      [] p = "cell3_mu"        -> "cell3_chempots"
      [] p = "cell3_chempots"  -> "cell3_gpd"
      [] p = "cell3_gpd"       -> "cell3_interface"
      [] p = "cell3_interface" -> "cell4_plot"
      [] p = "cell4_plot"      -> "cell5_kinks"
      [] p = "cell5_kinks"     -> "cell5_table"
      [] p = "cell5_table"     -> "cell6_rxn"
      [] p = "cell6_rxn"       -> "done"
      [] OTHER                 -> p

\* Raise as a handler that notes the failure and lets the run go on.
Raise_Swallow(step) ==
    /\ pc' = NextPc(pc, grand)
    /\ error' = step
    /\ UNCHANGED <<assigned, mpr, params, cell3, plt, cell5, rxn, requests,
                   outputs, files>>

\* An exception nothing catches: the cell stops at the statement that raised
\* and the cells after it are not run.
Raise(step) ==
    /\ pc' = "error"
    /\ error' = step
    /\ UNCHANGED <<assigned, mpr, params, cell3, plt, cell5, rxn, requests,
                   outputs, files>>

\* The names the statement at p reads from the namespace; g is the value of
\* grand.  Cell 2 reads grand in the statement after the one that binds it.
Reads(p, g) ==
    CASE p = "cell3_comps"     -> {"reactant1", "reactant2"}
      [] p = "cell3_elements"  ->
            {"comp1", "comp2", "grand"} \cup (IF g THEN {"open_el"} ELSE {})
      [] p = "cell3_query"     -> {"mpr", "elements"}
      [] p = "cell3_pd"        -> {"entries", "grand"}
      [] p = "cell3_mu"        -> {"pd", "open_el"}
      [] p = "cell3_chempots"  -> {"open_el", "relative_mu", "mu"}
      [] p = "cell3_gpd"       -> {"entries", "chempots"}
      [] p = "cell3_interface" ->
            {"comp1", "comp2", "pd"} \cup (IF g THEN {"gpd"} ELSE {})
      [] p = "cell4_plot"      -> {"interface"}
      [] p = "cell5_kinks"     -> {"interface"}
      [] p = "cell6_rxn"       -> {"critical_rxns"}
      [] OTHER                 -> {}

Init ==
    /\ pc = "cell1_mpr"
    /\ error = ""
    /\ assigned = {}
    /\ mpr = None
    /\ reactant1 = ""
    /\ reactant2 = ""
    /\ grand = FALSE
    /\ open_el = ""
    /\ relative_mu = 0
    /\ comp1 = << >>
    /\ comp2 = << >>
    /\ elements = << >>
    /\ entries = {}
    /\ pd = None
    /\ mu = 0
    /\ chempots = {}
    /\ gpd = None
    /\ interface = None
    /\ plt = None
    /\ kinks = << >>
    /\ heap = << >>
    /\ critical_rxns = << >>
    /\ rxn = None
    /\ calls = << >>
    /\ requests = << >>
    /\ outputs = << >>
    /\ files = {}

\* line 35: mpr = MPRester()
CreateRester ==
    /\ pc = "cell1_mpr"
    /\ calls' = Append(calls, "MPRester")
    /\ \/ /\ mpr' = [kind |-> "MPRester"]
          /\ assigned' = assigned \cup {"mpr"}
          /\ pc' = NextPc(pc, grand)
          /\ UNCHANGED <<error, params, cell3, plt, cell5, rxn, requests,
                         outputs, files>>
       \/ Raise("MPRester")

\* lines 56-66: the reactants and the mode; open_el and relative_mu only
\* under "if grand".
SetParameters ==
    /\ pc = "cell2_params"
    /\ \E r1 \in Reactants1, r2 \in Reactants2 :
          /\ reactant1' = r1
          /\ reactant2' = r2
    /\ \/ /\ grand' = TRUE
          /\ \E oe \in OpenElements, rm \in RelativeMus :
                /\ open_el' = oe
                /\ relative_mu' = rm
          /\ assigned' = assigned \cup {"reactant1", "reactant2", "grand",
                                        "open_el", "relative_mu"}
       \/ /\ grand' = FALSE
          /\ UNCHANGED <<open_el, relative_mu>>
          /\ assigned' = assigned \cup {"reactant1", "reactant2", "grand"}
    /\ pc' = NextPc(pc, grand')
    /\ UNCHANGED <<error, mpr, cell3, plt, cell5, rxn, calls, requests,
                   outputs, files>>

\* lines 83-84
MakeCompositions ==
    /\ pc = "cell3_comps"
    /\ comp1' = Composition(reactant1)
    /\ comp2' = Composition(reactant2)
    /\ assigned' = assigned \cup {"comp1", "comp2"}
    /\ pc' = NextPc(pc, grand)
    /\ UNCHANGED <<error, mpr, params, elements, entries, pd, mu, chempots,
                   gpd, interface, plt, cell5, rxn, calls, requests, outputs, files>>

\* lines 87-90
SetElements ==
    /\ pc = "cell3_elements"
    /\ elements' \in GatherElements(comp1, comp2, grand, open_el)
    /\ assigned' = assigned \cup {"elements"}
    /\ pc' = NextPc(pc, grand)
    /\ UNCHANGED <<error, mpr, params, comp1, comp2, entries, pd, mu,
                   chempots, gpd, interface, plt, cell5, rxn, calls, requests,
                   outputs, files>>

\* line 93, the request: the REST call goes out and the run blocks on it.
SendQuery ==
    /\ pc = "cell3_query"
    /\ calls' = Append(calls, "get_entries_in_chemsys")
    /\ requests' = Append(requests, elements)
    /\ pc' = NextPc(pc, grand)
    /\ UNCHANGED <<error, assigned, mpr, params, cell3, plt, cell5, rxn,
                   outputs, files>>

\* line 93, the response: the entries of the chemical system, or an error
\* (authentication, network).
ReceiveEntries ==
    /\ pc = "cell3_await"
    /\ \/ /\ \E db \in Databases :
                entries' = EntriesInChemsys(db, requests[Len(requests)])
          /\ assigned' = assigned \cup {"entries"}
          /\ pc' = NextPc(pc, grand)
          /\ UNCHANGED <<error, mpr, params, comp1, comp2, elements, pd, mu,
                         chempots, gpd, interface, plt, cell5, rxn, requests,
                         outputs, files>>
       \/ Raise("get_entries_in_chemsys")
    /\ UNCHANGED calls

\* line 96
BuildPhaseDiagram ==
    /\ pc = "cell3_pd"
    /\ calls' = Append(calls, "PhaseDiagram")
    /\ IF HasTerminals(entries)
       THEN /\ pd' = PhaseDiagram(entries)
            /\ assigned' = assigned \cup {"pd"}
            /\ pc' = NextPc(pc, grand)
            /\ UNCHANGED <<error, mpr, params, comp1, comp2, elements,
                           entries, mu, chempots, gpd, interface, plt, cell5,
                           rxn, requests, outputs, files>>
       ELSE Raise("PhaseDiagram")

\* GetChempot asking for the first element of the list, not for open_el.
GetChempot_FirstListed ==
    /\ pc = "cell3_mu"
    /\ calls' = Append(calls, "get_transition_chempots")
    /\ IF TransitionChempots(pd, elements[1]) # << >>
       THEN /\ mu' = FirstChempot(pd, elements[1])
            /\ assigned' = assigned \cup {"mu"}
            /\ pc' = NextPc(pc, grand)
            /\ UNCHANGED <<error, mpr, params, comp1, comp2, elements,
                           entries, pd, chempots, gpd, interface, plt, cell5,
                           rxn, requests, outputs, files>>
       ELSE Raise("get_transition_chempots")

\* line 101
GetChempot ==
    /\ pc = "cell3_mu"
    /\ calls' = Append(calls, "get_transition_chempots")
    /\ IF TransitionChempots(pd, open_el) # << >>
       THEN /\ mu' = FirstChempot(pd, open_el)
            /\ assigned' = assigned \cup {"mu"}
            /\ pc' = NextPc(pc, grand)
            /\ UNCHANGED <<error, mpr, params, comp1, comp2, elements,
                           entries, pd, chempots, gpd, interface, plt, cell5,
                           rxn, requests, outputs, files>>
       ELSE Raise("get_transition_chempots")

\* line 103
SetChempots ==
    /\ pc = "cell3_chempots"
    /\ chempots' = Chempots(open_el, relative_mu, mu)
    /\ assigned' = assigned \cup {"chempots"}
    /\ pc' = NextPc(pc, grand)
    /\ UNCHANGED <<error, mpr, params, comp1, comp2, elements, entries, pd,
                   mu, gpd, interface, plt, cell5, rxn, calls, requests,
                   outputs, files>>

\* line 105
BuildGrandDiagram ==
    /\ pc = "cell3_gpd"
    /\ calls' = Append(calls, "GrandPotentialPhaseDiagram")
    /\ \/ /\ gpd' = GrandPotentialPhaseDiagram(entries, chempots)
          /\ assigned' = assigned \cup {"gpd"}
          /\ pc' = NextPc(pc, grand)
          /\ UNCHANGED <<error, mpr, params, comp1, comp2, elements, entries,
                         pd, mu, chempots, interface, plt, cell5, rxn,
                         requests, outputs, files>>
       \/ Raise("GrandPotentialPhaseDiagram")

\* lines 107-111
BuildInterface ==
    /\ pc = "cell3_interface"
    /\ calls' = Append(calls, "InterfacialReactivity")
    /\ \/ /\ interface' = MakeInterface(grand, comp1, comp2, pd, gpd)
          /\ assigned' = assigned \cup {"interface"}
          /\ pc' = NextPc(pc, grand)
          /\ UNCHANGED <<error, mpr, params, comp1, comp2, elements, entries,
                         pd, mu, chempots, gpd, plt, cell5, rxn, requests,
                         outputs, files>>
       \/ Raise("InterfacialReactivity")

\* Plot saving the figure to disk as well.
Plot_Saving ==
    /\ pc = "cell4_plot"
    /\ calls' = Append(calls, "plot")
    /\ \/ /\ plt' = [kind |-> "pyplot"]
          /\ assigned' = assigned \cup {"plt"}
          /\ outputs' = Append(outputs, [kind |-> "image"])
          /\ files' = files \cup {"figure.png"}
          /\ pc' = NextPc(pc, grand)
          /\ UNCHANGED <<error, mpr, params, cell3, cell5, rxn, requests>>
       \/ Raise("plot")

\* line 138: plt = interface.plot(), the figure shown inline
Plot ==
    /\ pc = "cell4_plot"
    /\ calls' = Append(calls, "plot")
    /\ \/ /\ plt' = [kind |-> "pyplot"]
          /\ assigned' = assigned \cup {"plt"}
          /\ outputs' = Append(outputs, [kind |-> "image"])
          /\ pc' = NextPc(pc, grand)
          /\ UNCHANGED <<error, mpr, params, cell3, cell5, rxn, requests, files>>
       \/ Raise("plot")

\* line 253: interface.get_kinks()
GetKinks ==
    /\ pc = "cell5_kinks"
    /\ calls' = Append(calls, "get_kinks")
    /\ \/ /\ \E data \in SeqsUpTo(KinkData, MaxKinks) :
                /\ kinks' = KinkTuples(data)
                /\ heap' = KinkHeap(data)
          /\ pc' = NextPc(pc, grand)
          /\ UNCHANGED <<error, assigned, mpr, params, cell3, plt,
                         critical_rxns, rxn, requests, outputs, files>>
       \/ Raise("get_kinks")

\* BuildTable taking the kink records off the list as it reads them.
BuildTable_Consuming ==
    /\ pc = "cell5_table"
    /\ critical_rxns' = CriticalRxns(kinks)
    /\ kinks' = << >>
    /\ assigned' = assigned \cup {"critical_rxns"}
    /\ outputs' = Append(outputs, [kind |-> "table", rows |-> critical_rxns'])
    /\ pc' = NextPc(pc, grand)
    /\ UNCHANGED <<error, mpr, params, cell3, plt, heap, rxn, calls,
                   requests, files>>

\* lines 247-254: the table, and its display as a DataFrame
BuildTable ==
    /\ pc = "cell5_table"
    /\ critical_rxns' = CriticalRxns(kinks)
    /\ assigned' = assigned \cup {"critical_rxns"}
    /\ outputs' = Append(outputs, [kind |-> "table", rows |-> critical_rxns'])
    /\ pc' = NextPc(pc, grand)
    /\ UNCHANGED <<error, mpr, params, cell3, plt, kinks, heap, rxn, calls,
                   requests, files>>

\* lines 279-281: the third row's reaction, printed with its type
ReadThirdReaction ==
    /\ pc = "cell6_rxn"
    /\ IF Len(critical_rxns) > ThirdRow
       THEN /\ rxn' = Lookup(critical_rxns[ThirdRow + 1], "reaction")
            /\ assigned' = assigned \cup {"rxn"}
            /\ outputs' = outputs \o
                   << [kind |-> "text", value |-> RxnText(heap[rxn'.ref])],
                      [kind |-> "text", value |-> "Reaction"] >>
            /\ pc' = NextPc(pc, grand)
            /\ UNCHANGED <<error, mpr, params, cell3, plt, cell5, requests, files>>
       ELSE Raise("IndexError")
    /\ UNCHANGED calls

Next ==
    \/ CreateRester
    \/ SetParameters
    \/ MakeCompositions
    \/ SetElements
    \/ SendQuery
    \/ ReceiveEntries
    \/ BuildPhaseDiagram
    \/ GetChempot
    \/ SetChempots
    \/ BuildGrandDiagram
    \/ BuildInterface
    \/ Plot
    \/ GetKinks
    \/ BuildTable
    \/ ReadThirdReaction

Spec == Init /\ [][Next]_vars

-----------------------------------------------------------------------------
(* Properties *)

Bound(name) == name \in assigned
Called(name) == name \in Range(calls)
Pos(name) == CHOOSE i \in DOMAIN calls : calls[i] = name
\* b is called only after a has been
Before(a, b) == Called(b) => (Called(a) /\ Pos(a) < Pos(b))

\* C1: the flag grand alone selects what InterfacialReactivity is built from.
\* In grand mode: the grand-potential phase diagram (of the same entries, the
\* open element's chemical potential fixed), include_no_mixing_energy=True and
\* pd_non_grand the ordinary phase diagram.  Otherwise: the ordinary phase
\* diagram, include_no_mixing_energy=False, pd_non_grand=None, and no
\* grand-potential phase diagram is ever built.  In both modes norm=True and
\* the reactants are (comp1, comp2) in that order.
C1_ModeSelectsInputs ==
    /\ Bound("interface") =>
          /\ interface.kind = "InterfacialReactivity"
          /\ interface.c1 = comp1
          /\ interface.c2 = comp2
          /\ interface.norm = TRUE
          /\ pd.kind = "PhaseDiagram"
          /\ grand =>
                /\ interface.pd.kind = "GrandPotentialPhaseDiagram"
                /\ interface.pd.entries = pd.entries
                /\ Cardinality(interface.pd.chempots) = 1
                /\ \A c \in interface.pd.chempots : c[1] = open_el
                /\ interface.pd = gpd
                /\ interface.include_no_mixing_energy = TRUE
                /\ interface.pd_non_grand = pd
          /\ ~grand =>
                /\ interface.pd = pd
                /\ interface.include_no_mixing_energy = FALSE
                /\ interface.pd_non_grand = None
    /\ (Bound("grand") /\ ~grand) =>
          /\ ~Called("GrandPotentialPhaseDiagram")
          /\ ~Bound("gpd")
          /\ gpd = None

C1_Witness ==
    /\ Bound("interface")
    /\ grand
    /\ interface.pd = gpd
    /\ interface.pd_non_grand = pd

\* C2: the element list sent to get_entries_in_chemsys is, as a set, the
\* union of the two reactants' elements, plus the open element exactly in
\* grand mode; no symbol occurs twice.  When the open element already occurs
\* in a reactant the set is that of the closed system.
C2_ElementsQueried ==
    LET closed == ElementSet(reactant1) \cup ElementSet(reactant2)
    IN  /\ Bound("elements") =>
              /\ Range(elements) = closed \cup (IF grand THEN {open_el} ELSE {})
              /\ Len(elements) = Cardinality(Range(elements))
              /\ (grand /\ open_el \in closed) => Range(elements) = closed
        /\ \A i \in DOMAIN requests : requests[i] = elements

C2_Witness ==
    /\ requests # << >>
    /\ grand
    /\ open_el \in ElementSet(reactant1)
    /\ ElementSet(reactant1) \cap ElementSet(reactant2) # {}

\* v, in units of 10^-NDigits, is a multiple nearest to x, in units of 10^-5
Nearest(v, x) ==
    LET unit == Pow10(5 - NDigits)
        d == unit * v - x
    IN  2 * d <= unit /\ 2 * (0 - d) <= unit

\* C3: critical_rxns has one row per record get_kinks returned, in the same
\* order; a row holds the record's mixing ratio and reaction energy rounded
\* to 4 decimals and the record's Reaction object itself, not its text; the
\* record's index is dropped.
C3_TableRows ==
    Bound("critical_rxns") =>
        /\ Len(critical_rxns) = Len(kinks)
        /\ \A i \in DOMAIN kinks :
              LET row == critical_rxns[i]
                  kink == kinks[i]
              IN  /\ Len(row) = 3
                  /\ row[1][1] = "mixing ratio"
                  /\ Nearest(row[1][2], kink[2])
                  /\ row[2][1] = "reaction energy (eV/atom)"
                  /\ Nearest(row[2][2], kink[3])
                  /\ row[3][1] = "reaction"
                  /\ row[3][2] = kink[4]
                  /\ row[3][2] # RxnText(heap[kink[4].ref])

C3_Witness ==
    /\ Bound("critical_rxns")
    /\ Len(kinks) = 3
    /\ \E i \in DOMAIN kinks :
          /\ kinks[i][1] = i
          /\ kinks[i][2] # Pow10(5 - NDigits) * critical_rxns[i][1][2]
          /\ kinks[i][3] # Pow10(5 - NDigits) * critical_rxns[i][2][2]

\* C4: the steps of a run come in one order, each at most once: the query
\* has returned before the phase diagram is built, the phase diagram is built
\* before the grand-potential one and before InterfacialReactivity, which is
\* built before plot() and get_kinks(); nothing starts while the query is out;
\* a run issues one query.
C4_PipelineOrder ==
    /\ \A i, j \in DOMAIN calls : calls[i] = calls[j] => i = j
    /\ Before("get_entries_in_chemsys", "PhaseDiagram")
    /\ Called("PhaseDiagram") => Bound("entries")
    /\ Before("PhaseDiagram", "GrandPotentialPhaseDiagram")
    /\ Before("PhaseDiagram", "InterfacialReactivity")
    /\ Called("GrandPotentialPhaseDiagram") => (grand /\ Bound("pd"))
    /\ Called("InterfacialReactivity") =>
          /\ Bound("pd")
          /\ grand => (Bound("gpd") /\ Pos("GrandPotentialPhaseDiagram")
                                         < Pos("InterfacialReactivity"))
    /\ Before("InterfacialReactivity", "plot")
    /\ Before("InterfacialReactivity", "get_kinks")
    /\ Before("plot", "get_kinks")
    /\ Called("plot") => Bound("interface")
    /\ pc = "cell3_await" =>
          /\ calls[Len(calls)] = "get_entries_in_chemsys"
          /\ ~Bound("entries")
          /\ ~Bound("pd")
    /\ Len(requests) <= 1
    /\ Called("PhaseDiagram") => Len(requests) = 1
    /\ pc = "done" => Len(requests) = 1

C4_Witness ==
    /\ pc = "done"
    /\ grand
    /\ Called("GrandPotentialPhaseDiagram")
    /\ Called("get_kinks")

\* The names a failed call leaves unbound: its own result and those of every
\* later statement.
UnboundAfter(step) ==
    CASE step = "MPRester" ->
            {"mpr", "reactant1", "reactant2", "grand", "comp1", "comp2",
             "elements", "entries", "pd", "mu", "chempots", "gpd",
             "interface", "plt", "critical_rxns", "rxn"}
      [] step = "get_entries_in_chemsys" ->
            {"entries", "pd", "mu", "chempots", "gpd", "interface", "plt",
             "critical_rxns", "rxn"}
      [] step = "PhaseDiagram" ->
            {"pd", "mu", "chempots", "gpd", "interface", "plt",
             "critical_rxns", "rxn"}
      [] step = "get_transition_chempots" ->
            {"mu", "chempots", "gpd", "interface", "plt", "critical_rxns",
             "rxn"}
      [] step = "GrandPotentialPhaseDiagram" ->
            {"gpd", "interface", "plt", "critical_rxns", "rxn"}
      [] step = "InterfacialReactivity" ->
            {"interface", "plt", "critical_rxns", "rxn"}
      [] step = "plot" -> {"plt", "critical_rxns", "rxn"}
      [] step = "get_kinks" -> {"critical_rxns", "rxn"}
      [] OTHER -> {"rxn"}

\* C5: a failed external call is neither caught nor retried: the run is in
\* the error state at that call, the call is the last one made, nothing a
\* later statement assigns is bound, no figure or table is shown that a later
\* statement would show, and the run does nothing more.
C5_FailurePropagates ==
    /\ [](error # "" =>
            /\ pc = "error"
            /\ UnboundAfter(error) \cap assigned = {}
            /\ error # "IndexError" => calls[Len(calls)] = error
            /\ ~Called("plot") => outputs = << >>
            /\ error \in {"plot", "get_kinks"} =>
                  \A i \in DOMAIN outputs : outputs[i].kind = "image")
    /\ [][error # "" => vars' = vars]_vars

C5_Witness ==
    /\ pc = "error"
    /\ error = "PhaseDiagram"
    /\ Bound("entries")
    /\ entries = {}

\* C9: in grand mode the chemical potential fixed for the open element is
\* mu + relative_mu, mu the first transition chemical potential of that
\* element in the ordinary phase diagram; relative_mu is not positive, so the
\* fixed potential is at most mu.
C9_ReservoirPotential ==
    /\ Bound("relative_mu") => relative_mu <= 0
    /\ Bound("mu") => mu = TransitionChempots(pd, open_el)[1]
    /\ Bound("gpd") =>
          LET first == TransitionChempots(pd, open_el)[1]
          IN  /\ gpd.chempots = { <<open_el, first + relative_mu>> }
              /\ \A c \in gpd.chempots : c[2] <= first

C9_Witness ==
    /\ Bound("gpd")
    /\ relative_mu < 0
    /\ Len(TransitionChempots(pd, open_el)) > 1
    /\ \E c \in gpd.chempots : c[2] < mu

\* C10: what a step has produced, no later step changes: comp1, comp2, the
\* entries and the phase diagram stay as they were made, the same entries go
\* to PhaseDiagram and GrandPotentialPhaseDiagram, and building critical_rxns
\* leaves the kink records and their Reaction objects as they were.
C10_NothingMutated ==
    /\ [](/\ Bound("pd") => pd.entries = entries
          /\ Bound("gpd") => gpd.entries = entries
          /\ Bound("interface") => (interface.c1 = comp1 /\ interface.c2 = comp2))
    /\ [][/\ Bound("comp1") => (comp1' = comp1 /\ comp2' = comp2)
          /\ Bound("entries") => entries' = entries
          /\ Bound("pd") => pd' = pd
          /\ pc \in {"cell5_table", "cell6_rxn"} =>
                (kinks' = kinks /\ heap' = heap)]_vars

C10_Witness ==
    /\ pc = "done"
    /\ Bound("gpd")
    /\ Len(kinks) = 3
    /\ Len(critical_rxns) = 3

\* C11 as stated: a complete run shows an inline image and a table and
\* nothing else, and writes no file.
C11_ImageAndTableOnly ==
    /\ files = {}
    /\ pc = "done" =>
          /\ Len(outputs) = 2
          /\ outputs[1].kind = "image"
          /\ outputs[2].kind = "table"

\* C11, amended: a complete run shows, in this order, the inline image, the
\* table of critical_rxns and the two lines cell 6 prints (the third kink's
\* reaction and its type); no cell shows anything else, and no file is
\* written at any point of any run.
C11_OutputsOfARun ==
    /\ files = {}
    /\ \A i \in DOMAIN outputs : outputs[i].kind \in {"image", "table", "text"}
    /\ pc = "done" =>
          /\ Len(outputs) = 4
          /\ outputs[1] = [kind |-> "image"]
          /\ outputs[2] = [kind |-> "table", rows |-> critical_rxns]
          /\ outputs[3] = [kind |-> "text", value |-> RxnText(heap[ThirdRow + 1])]
          /\ outputs[4] = [kind |-> "text", value |-> "Reaction"]

C11_Witness ==
    /\ pc = "done"
    /\ ~grand
    /\ Len(outputs) = 4
    /\ outputs[3].kind = "text"

\* C12: no statement reads a name that is not bound yet, in either mode.
\* open_el and relative_mu are bound only when grand is true; mu, chempots
\* and gpd are bound only in grand mode; with grand false the run never is at
\* a statement that reads open_el, relative_mu or gpd.
C12_NoUnboundRead ==
    /\ Reads(pc, grand) \subseteq assigned
    /\ (Bound("open_el") \/ Bound("relative_mu")) => (Bound("grand") /\ grand)
    /\ Bound("open_el") <=> Bound("relative_mu")
    /\ (Bound("mu") \/ Bound("chempots") \/ Bound("gpd")) => grand
    /\ (Bound("grand") /\ ~grand) =>
          /\ Reads(pc, grand) \cap {"open_el", "relative_mu", "gpd", "mu",
                                    "chempots"} = {}
          /\ pc \notin {"cell3_mu", "cell3_chempots", "cell3_gpd"}
          /\ assigned \cap {"open_el", "relative_mu", "gpd", "mu",
                            "chempots"} = {}

C12_Witness ==
    /\ pc = "done"
    /\ Bound("grand")
    /\ ~grand
    /\ ~Bound("open_el")
    /\ Bound("rxn")

\* C13: what a run computes is a function of the reactants, the mode, the
\* open element, relative_mu and what the database holds, whatever order
\* list(set(elements)) came out in: the set of elements queried, the entries
\* received, mu, and every argument InterfacialReactivity is built with are
\* written here from those inputs alone, and the rows of the table from the
\* kink records alone, so two runs that agree on the inputs agree on them.
C13_Determined ==
    LET system == ElementSet(reactant1) \cup ElementSet(reactant2)
                      \cup (IF grand THEN {open_el} ELSE {})
        ordinary == [kind |-> "PhaseDiagram", entries |-> entries]
        purest == Min({e.energy : e \in {t \in entries :
                                    ElementSet(t.formula) = {open_el}}})
        reservoir == [kind |-> "GrandPotentialPhaseDiagram",
                      entries |-> entries,
                      chempots |-> { <<open_el, relative_mu + purest>> }]
    IN  /\ \A i \in DOMAIN requests : Range(requests[i]) = system
        /\ Bound("entries") =>
              \E db \in Databases :
                  entries = {e \in db : ElementSet(e.formula) \subseteq system}
        /\ Bound("mu") => mu = purest
        /\ Bound("interface") =>
              interface =
                  [kind |-> "InterfacialReactivity",
                   c1 |-> Composition(reactant1),
                   c2 |-> Composition(reactant2),
                   pd |-> IF grand THEN reservoir ELSE ordinary,
                   norm |-> TRUE,
                   include_no_mixing_energy |-> grand,
                   pd_non_grand |-> IF grand THEN ordinary ELSE None]
        /\ Bound("critical_rxns") =>
              /\ DOMAIN critical_rxns = DOMAIN kinks
              /\ \A i, j \in DOMAIN kinks :
                    (kinks[i][2] = kinks[j][2] /\ kinks[i][3] = kinks[j][3]) =>
                        /\ critical_rxns[i][1] = critical_rxns[j][1]
                        /\ critical_rxns[i][2] = critical_rxns[j][2]

\* a grand run through to the table whose element list came out in another
\* order than the source lists the elements in
C13_Witness ==
    /\ pc = "done"
    /\ grand
    /\ reactant1 = "LiCoO2"
    /\ reactant2 = "Li3PS4"
    /\ open_el = "Co"
    /\ elements = <<"S", "P", "O", "Co", "Li">>
    /\ Len(kinks) = 3
    /\ kinks[1][2] = kinks[3][2]

\* C14: the read of critical_rxns[2] in cell 6 is always defined: whenever
\* the cells before it have completed, the table has at least three rows, and
\* the read never raises.
C14_ThirdRowDefined ==
    /\ pc = "cell6_rxn" => Len(critical_rxns) >= ThirdRow + 1
    /\ error # "IndexError"

=============================================================================
